---- MODULE Spec2Model ----
(***************************************************************************)
(* Model of the brainfuck front end in src/codegen.cpp: the recursive      *)
(* descent parser (Ast::Node::try_parse and the two scope parsers), the    *)
(* debug printer, the code generator that lowers the tree into basic       *)
(* blocks, the driver main(), and the execution of the emitted blocks over *)
(* a byte tape and a position.                                             *)
(***************************************************************************)
EXTENDS Integers, Sequences, FiniteSets, TLC

(***************************************************************************)
(* Bounds of the model.                                                    *)
(***************************************************************************)
\* longest enumerated program text of the driver specification
MaxLen == 3
\* longest enumerated program text of the parser specification
MaxParseLen == 2
\* number of filler characters inserted into a text
MaxInsert == 1
\* the emitted program is followed while the position stays within -MaxPos..MaxPos
MaxPos == 2
\* the emitted program is followed until it has written this many bytes
MaxOut == 2

\* src/codegen.cpp:32
TAPE_SIZE == 16384

(***************************************************************************)
(* Characters and program texts.  A text is a sequence of one-character    *)
(* strings.  " " stands for the whitespace operator>> skips, "x" for any   *)
(* other character the switch does not know.                               *)
(***************************************************************************)
Commands == {"+", "-", "<", ">", ".", ",", "[", "]"}
Whitespace == {" "}
Filler == {"x", " "}
Alphabet == Commands \cup Filler

Texts(n) == UNION {[1..k -> Alphabet] : k \in 0..n}

\* ++>+++++[<+>-]<.
Scenario7 ==
  <<"+", "+", ">", "+", "+", "+", "+", "+", "[", "<", "+", ">", "-", "]", "<", ".">>
\* +[+]  256 increments of cell 0
ScenarioWrap == <<"+", "[", "+", "]">>
\* ++[>+[-]>+<<-]>>.  a nested loop inside a body that runs twice
ScenarioNested ==
  <<"+", "+", "[", ">", "+", "[", "-", "]", ">", "+", "<", "<", "-", "]", ">", ">", ".">>
\* +[[-]]+.  code after a loop that ends in a loop
ScenarioNestedTail == <<"+", "[", "[", "-", "]", "]", "+", ".">>
\* +++[-[>+<-]]>.  the trailing test of the outer loop follows the inner loop
ScenarioInnerLast ==
  <<"+", "+", "+", "[", "-", "[", ">", "+", "<", "-", "]", "]", ">", ".">>
ScenarioUnclosed == <<"+", "[", "-", "[", "x", "+">>
ScenarioStray == <<"+", "]", "+", "[", "-", "]">>
ScenarioEcho == <<",", ".">>
\* +[>[+.]<-]  a loop met with its cell at 0 inside a loop that runs
ScenarioSkip == <<"+", "[", ">", "[", "+", ".", "]", "<", "-", "]">>
\* <.  a read left of the tape
ScenarioLeft == <<"<", ".">>

ParseScenarios ==
  {Scenario7, ScenarioNested, ScenarioNestedTail, ScenarioInnerLast,
   ScenarioUnclosed, ScenarioStray, ScenarioEcho}
Scenarios == ParseScenarios \cup {ScenarioWrap, ScenarioLeft, ScenarioSkip}

Inputs == Texts(MaxLen) \cup Scenarios
ParseInputs == Texts(MaxParseLen) \cup ParseScenarios

(***************************************************************************)
(* AST nodes.  Every node is a record of the same shape; leaves have no    *)
(* children.  NULL is the null pointer try_parse returns.                  *)
(***************************************************************************)
NULL == [kind |-> "NULL", children |-> <<>>]
IncrementNode == [kind |-> "Increment", children |-> <<>>]
DecrementNode == [kind |-> "Decrement", children |-> <<>>]
MoveLeftNode == [kind |-> "MoveLeft", children |-> <<>>]
MoveRightNode == [kind |-> "MoveRight", children |-> <<>>]
PutCharNode == [kind |-> "PutChar", children |-> <<>>]
GetCharNode == [kind |-> "GetChar", children |-> <<>>]
ProgramNode(children) == [kind |-> "Program", children |-> children]
ConditionalGroupNode(children) == [kind |-> "ConditionalGroup", children |-> children]

(***************************************************************************)
(* The stream: `in >> c` skips whitespace, then fails at the end of the    *)
(* text or reads one character.  pos counts the characters consumed.       *)
(***************************************************************************)
RECURSIVE SkipWs(_, _)
SkipWs(s, pos) ==
  IF pos < Len(s) /\ s[pos + 1] \in Whitespace THEN SkipWs(s, pos + 1) ELSE pos

Extract(s, pos) ==
  LET p == SkipWs(s, pos) IN
  IF p < Len(s)
    THEN [ok |-> TRUE, c |-> s[p + 1], pos |-> p + 1]
    ELSE [ok |-> FALSE, c |-> " ", pos |-> p]

(***************************************************************************)
(* The parser.  Each operator returns the node and the stream position it  *)
(* leaves behind.                                                          *)
(***************************************************************************)
RECURSIVE NodeTryParse(_, _)
RECURSIVE ConditionalGroupTryParse(_, _)
RECURSIVE GroupChildren(_, _, _)
RECURSIVE ProgramChildren(_, _, _)

\* the default arm of the switch: the character is ignored, the loop goes on
UnknownCharStops(s, pos) == [node |-> NULL, pos |-> pos]
UnknownChar(s, pos) == NodeTryParse(s, pos)

\* the ']' arm of the switch
CloseBracketIgnored(s, pos) == NodeTryParse(s, pos)
CloseBracket(s, pos) == [node |-> NULL, pos |-> pos]

NodeTryParse(s, pos) ==
  LET r == Extract(s, pos) IN
  IF ~r.ok THEN [node |-> NULL, pos |-> r.pos]
  ELSE CASE r.c = "+" -> [node |-> IncrementNode, pos |-> r.pos]
         [] r.c = "-" -> [node |-> DecrementNode, pos |-> r.pos]
         [] r.c = "<" -> [node |-> MoveLeftNode, pos |-> r.pos]
         [] r.c = ">" -> [node |-> MoveRightNode, pos |-> r.pos]
         [] r.c = "." -> [node |-> PutCharNode, pos |-> r.pos]
         [] r.c = "," -> [node |-> GetCharNode, pos |-> r.pos]
         [] r.c = "[" -> ConditionalGroupTryParse(s, r.pos)
         [] r.c = "]" -> CloseBracket(s, r.pos)
         [] OTHER -> UnknownChar(s, r.pos)

\* while ((node = Node::try_parse(in))) children.push_back(node);
GroupChildren(s, pos, children) ==
  LET r == NodeTryParse(s, pos) IN
  IF r.node = NULL THEN [children |-> children, pos |-> r.pos]
  ELSE GroupChildren(s, r.pos, Append(children, r.node))

\* a strict parser would give up on a scope the text never closes
GroupResultStrict(s, children, pos) ==
  IF pos >= Len(s) /\ (pos = 0 \/ s[pos] # "]")
    THEN [node |-> NULL, pos |-> pos]
    ELSE [node |-> ConditionalGroupNode(children), pos |-> pos]
GroupResult(s, children, pos) ==
  [node |-> ConditionalGroupNode(children), pos |-> pos]

ConditionalGroupTryParse(s, pos) ==
  LET r == GroupChildren(s, pos, <<>>) IN GroupResult(s, r.children, r.pos)

ProgramChildren(s, pos, children) ==
  LET r == NodeTryParse(s, pos) IN
  IF r.node = NULL THEN [children |-> children, pos |-> r.pos]
  ELSE ProgramChildren(s, r.pos, Append(children, r.node))

ProgramTryParse(s) ==
  LET r == ProgramChildren(s, 0, <<>>) IN
  [node |-> ProgramNode(r.children), pos |-> r.pos]

(***************************************************************************)
(* debug_print: the text written to std::cout.                             *)
(***************************************************************************)
RECURSIVE DebugPrint(_)
RECURSIVE DebugPrintChildren(_)

DebugPrintChildren(children) ==
  IF children = <<>> THEN <<>>
  ELSE DebugPrint(Head(children)) \o DebugPrintChildren(Tail(children))

GroupDebugPrintNoClose(children) == <<"[">> \o DebugPrintChildren(children)
GroupDebugPrint(children) == <<"[">> \o DebugPrintChildren(children) \o <<"]">>

DebugPrint(n) ==
  CASE n.kind = "Increment" -> <<"+">>
    [] n.kind = "Decrement" -> <<"-">>
    [] n.kind = "MoveLeft" -> <<"<">>
    [] n.kind = "MoveRight" -> <<">">>
    [] n.kind = "PutChar" -> <<".">>
    [] n.kind = "GetChar" -> <<",">>
    [] n.kind = "ConditionalGroup" -> GroupDebugPrint(n.children)
    [] n.kind = "Program" -> DebugPrintChildren(n.children)

(***************************************************************************)
(* Emitted operations.  Each is the instruction sequence one codegen()     *)
(* emits as a unit; a block is the sequence of the operations inserted     *)
(* into it, and the function is the sequence of its blocks in creation     *)
(* order (block 1 is "entry").                                             *)
(***************************************************************************)
Op(name) == [op |-> name, t |-> 0, f |-> 0]
\* load cell, icmp ne 0, br i1 %cond, label t, label f
CondBr(t, f) == [op |-> "CondBr", t |-> t, f |-> f]
Terminators == {"CondBr", "Ret"}

\* CreateCondBr(start_condition, group_content, merge)
EntryBranchAlwaysEnters(content, merge) == CondBr(content, content)
EntryBranch(content, merge) == CondBr(content, merge)

\* CreateCondBr(end_condition, group_content, merge)
TrailingBranchLeaves(content, merge) == CondBr(merge, merge)
TrailingBranch(content, merge) == CondBr(content, merge)

\* the block the trailing test is inserted into: the builder's current block
TrailingBlockIsContent(cur, content) == content
TrailingBlock(cur, content) == cur

\* Builder->SetInsertPoint(merge)
InsertPointLeftBehind(cur, merge) == cur
InsertPointAfterGroup(cur, merge) == merge

Emit(bs, b, o) == [bs EXCEPT ![b] = Append(@, o)]

(***************************************************************************)
(* verifyFunction, as far as the block structure goes: TRUE when the       *)
(* function is broken (a block that does not end in its only terminator, a *)
(* branch out of the function, a branch to the entry block).               *)
(***************************************************************************)
BlockBroken(bs, b) ==
  \/ bs[b] = <<>>
  \/ bs[b][Len(bs[b])].op \notin Terminators
  \/ \E i \in 1..(Len(bs[b]) - 1) : bs[b][i].op \in Terminators
  \/ \E i \in 1..Len(bs[b]) :
       /\ bs[b][i].op = "CondBr"
       /\ \/ bs[b][i].t \notin 2..Len(bs)
          \/ bs[b][i].f \notin 2..Len(bs)

StructureBroken(bs) == bs = <<>> \/ \E b \in 1..Len(bs) : BlockBroken(bs, b)

\* What verifyFunction may return.  The verifier is the backend's: it rejects a
\* broken block structure, and checks more (types, dominance, call signatures)
\* than the blocks modelled here show, so its verdict is otherwise left open.
VerifierVerdicts(bs) == {verdict \in BOOLEAN : StructureBroken(bs) => verdict}

(***************************************************************************)
(* Arithmetic of the emitted operations.                                   *)
(***************************************************************************)
\* add i8 %cell, 1
Add8NoWrap(v) == v + 1
Add8(v) == (v + 1) % 256
\* sub i8 %cell, 1
Sub8(v) == (v - 1) % 256
\* CreateIntCast(c, i8, true): truncation of getchar()'s int
Trunc8(c) == c % 256

\* what getchar() may return: EOF and some bytes
GetcharResults == {-1, 0, 1, 65}
\* what a load outside the tape may yield, and what an alloca may hold
JunkBytes == {0, 1}

\* the cells the bounded run can reach; the others stay zero
TapeCells == 0..MaxPos
InBounds(p) == 0 <= p /\ p < TAPE_SIZE
ZeroTape == [i \in TapeCells |-> 0]

(***************************************************************************)
(* State.                                                                  *)
(***************************************************************************)
VARIABLES
  input,          \* the text of program.bf
  phase,          \* where main() (or the parser harness) stands
  root,           \* the AST main() holds
  consumed,       \* characters of the stream consumed by the parse
  commented,      \* the text with filler characters inserted
  rootCommented,  \* the AST parsed from the commented text
  printed,        \* what debug_print wrote
  rootPrinted,    \* the AST parsed from the printed text
  blocks,         \* the basic blocks of the function "main"
  insertBlock,    \* Builder's insertion block
  frames,         \* the codegen() calls in progress, innermost last
  externs,        \* the functions declared in TheModule
  groups,         \* per ConditionalGroupNode::codegen call, in call order: the
                  \* blocks it branched from (base, tail) and created (content, merge)
  broken,         \* what verifyFunction returned
  optimized,      \* TheFPM->run was called
  out,            \* what main() wrote to standard output
  pc,             \* the emitted program: block and index of the next operation
  position,       \* the emitted program: the write head
  tape,           \* the emitted program: the cells
  putlog,         \* the emitted program: the bytes given to putchar
  ub,             \* the emitted program has accessed memory outside the tape
  whilePos        \* history: where a run of the tree itself, taking every group as
                  \* `while (cell != 0)`, stands after the same number of steps

parseVars == <<commented, rootCommented, printed, rootPrinted>>
genVars == <<blocks, insertBlock, frames, externs, groups>>
mainVars == <<broken, optimized, out>>
runVars == <<pc, position, tape, putlog, ub, whilePos>>
vars ==
  <<input, phase, root, consumed, commented, rootCommented, printed, rootPrinted,
    blocks, insertBlock, frames, externs, groups, broken, optimized, out,
    pc, position, tape, putlog, ub, whilePos>>

InitRest ==
  /\ phase = "start"
  /\ root = NULL
  /\ consumed = 0
  /\ commented = input
  /\ rootCommented = NULL
  /\ printed = <<>>
  /\ rootPrinted = NULL
  /\ blocks = <<>>
  /\ insertBlock = 0
  /\ frames = <<>>
  /\ externs = {}
  /\ groups = <<>>
  /\ broken = FALSE
  /\ optimized = FALSE
  /\ out = <<>>
  /\ pc = [blk |-> 0, idx |-> 0]
  /\ position = 0
  /\ tape = ZeroTape
  /\ putlog = <<>>
  /\ ub = FALSE
  /\ whilePos = <<>>

(***************************************************************************)
(* The parser specification: a text is parsed, parsed again with filler    *)
(* characters inserted, printed by debug_print and parsed from the print.  *)
(***************************************************************************)
InsertAt(s, i, c) == SubSeq(s, 1, i) \o <<c>> \o SubSeq(s, i + 1, Len(s))

InitParse == input \in ParseInputs /\ InitRest

ParseText ==
  /\ phase = "start"
  /\ LET r == ProgramTryParse(input) IN
       /\ root' = r.node
       /\ consumed' = r.pos
  /\ phase' = "parsed"
  /\ UNCHANGED <<input, parseVars, genVars, mainVars, runVars>>

InsertFiller ==
  /\ phase = "parsed"
  /\ Len(commented) < Len(input) + MaxInsert
  /\ \E i \in 0..Len(commented), c \in Filler : commented' = InsertAt(commented, i, c)
  /\ UNCHANGED <<input, phase, root, consumed, rootCommented, printed, rootPrinted,
                 genVars, mainVars, runVars>>

ParseCommented ==
  /\ phase = "parsed"
  /\ rootCommented' = ProgramTryParse(commented).node
  /\ phase' = "parsedCommented"
  /\ UNCHANGED <<input, root, consumed, commented, printed, rootPrinted,
                 genVars, mainVars, runVars>>

PrintTree ==
  /\ phase = "parsed"
  /\ printed' = DebugPrint(root)
  /\ phase' = "printed"
  /\ UNCHANGED <<input, root, consumed, commented, rootCommented, rootPrinted,
                 genVars, mainVars, runVars>>

ParsePrinted ==
  /\ phase = "printed"
  /\ rootPrinted' = ProgramTryParse(printed).node
  /\ phase' = "reparsed"
  /\ UNCHANGED <<input, root, consumed, commented, rootCommented, printed,
                 genVars, mainVars, runVars>>

NextParse == ParseText \/ InsertFiller \/ ParseCommented \/ PrintTree \/ ParsePrinted

SpecParse == InitParse /\ [][NextParse]_vars

(***************************************************************************)
(* The driver specification: main() opens and parses program.bf, emits     *)
(* the function, verifies, optimizes and prints it; the emitted function   *)
(* is then executed.                                                       *)
(***************************************************************************)
Init == input \in Inputs /\ InitRest

\* fstream in("program.bf"); if (!in.is_open()) ...
MainOpen ==
  /\ phase = "start"
  /\ \E isOpen \in BOOLEAN :
       IF isOpen
         THEN phase' = "opened" /\ out' = out
         ELSE phase' = "exitOpen" /\ out' = Append(out, "Failed to open input file")
  /\ UNCHANGED <<input, root, consumed, parseVars, genVars, broken, optimized, runVars>>

\* root = ProgramNode::try_parse(in); if (!root) ...
MainParse ==
  /\ phase = "opened"
  /\ LET r == ProgramTryParse(input) IN
       /\ root' = r.node
       /\ consumed' = r.pos
       /\ IF r.node = NULL
            THEN phase' = "exitParse" /\ out' = Append(out, "Failed to parse AST")
            ELSE phase' = "parsed" /\ out' = out
  /\ UNCHANGED <<input, parseVars, genVars, broken, optimized, runVars>>

\* llvm_init(): a fresh module, builder and pass manager
LlvmInit ==
  /\ phase = "parsed"
  /\ blocks' = <<>>
  /\ insertBlock' = 0
  /\ externs' = {}
  /\ frames' = <<>>
  /\ groups' = <<>>
  /\ phase' = "init"
  /\ UNCHANGED <<input, root, consumed, parseVars, mainVars, runVars>>

Top == frames[Len(frames)]
Pop == SubSeq(frames, 1, Len(frames) - 1)
\* the call in progress moves on to its next child
Advanced == [frames EXCEPT ![Len(frames)].rest = Tail(@)]
NextChildIs(kind) ==
  /\ phase = "codegen"
  /\ frames # <<>>
  /\ Top.rest # <<>>
  /\ Head(Top.rest).kind = kind

\* ProgramNode::codegen up to the loop over the children
ProgramCodegenBegin ==
  /\ phase = "init"
  /\ blocks' = << <<Op("StorePosition"), Op("StoreTape")>> >>
  /\ insertBlock' = 1
  /\ frames' = <<[kind |-> "Program", rest |-> root.children, group |-> 0,
                 content |-> 0, merge |-> 0]>>
  /\ phase' = "codegen"
  /\ UNCHANGED <<input, root, consumed, parseVars, externs, groups, mainVars, runVars>>

LeafCodegen(kind, name) ==
  /\ NextChildIs(kind)
  /\ blocks' = Emit(blocks, insertBlock, Op(name))
  /\ frames' = Advanced
  /\ UNCHANGED <<input, phase, root, consumed, parseVars, insertBlock, groups, mainVars,
                 runVars>>

IncrementCodegen == LeafCodegen("Increment", "IncCell") /\ UNCHANGED externs
DecrementCodegen == LeafCodegen("Decrement", "DecCell") /\ UNCHANGED externs
MoveLeftCodegen == LeafCodegen("MoveLeft", "DecPosition") /\ UNCHANGED externs
MoveRightCodegen == LeafCodegen("MoveRight", "IncPosition") /\ UNCHANGED externs
PutCharCodegen == LeafCodegen("PutChar", "PutChar") /\ externs' = externs \cup {"putchar"}
GetCharCodegen == LeafCodegen("GetChar", "GetChar") /\ externs' = externs \cup {"getchar"}

\* ConditionalGroupNode::codegen up to the loop over the children
GroupCodegenBegin ==
  /\ NextChildIs("ConditionalGroup")
  /\ LET content == Len(blocks) + 1
         merge == Len(blocks) + 2
     IN /\ blocks' =
             Emit(blocks, insertBlock, EntryBranch(content, merge)) \o <<<<>>, <<>>>>
        /\ insertBlock' = content
        /\ frames' =
             Append(Advanced,
                    [kind |-> "ConditionalGroup", rest |-> Head(Top.rest).children,
                     group |-> Len(groups) + 1, content |-> content, merge |-> merge])
        /\ groups' =
             Append(groups,
                    [base |-> insertBlock, content |-> content, merge |-> merge,
                     tail |-> 0])
  /\ UNCHANGED <<input, phase, root, consumed, parseVars, externs, mainVars, runVars>>

\* ConditionalGroupNode::codegen after the loop over the children
GroupCodegenEnd ==
  /\ phase = "codegen"
  /\ frames # <<>>
  /\ Top.kind = "ConditionalGroup"
  /\ Top.rest = <<>>
  /\ blocks' = Emit(blocks, TrailingBlock(insertBlock, Top.content),
                    TrailingBranch(Top.content, Top.merge))
  /\ insertBlock' = InsertPointAfterGroup(insertBlock, Top.merge)
  /\ groups' = [groups EXCEPT ![Top.group].tail = TrailingBlock(insertBlock, Top.content)]
  /\ frames' = Pop
  /\ UNCHANGED <<input, phase, root, consumed, parseVars, externs, mainVars, runVars>>

\* ProgramNode::codegen after the loop: CreateRet(NULL); verifyFunction(*main).
\* The verdict is the backend's; it is stored nowhere.
ProgramCodegenEnd ==
  /\ phase = "codegen"
  /\ frames # <<>>
  /\ Top.kind = "Program"
  /\ Top.rest = <<>>
  /\ blocks' = Emit(blocks, insertBlock, Op("Ret"))
  /\ broken' \in VerifierVerdicts(blocks')
  /\ frames' = Pop
  /\ phase' = "emitted"
  /\ UNCHANGED <<input, root, consumed, parseVars, insertBlock, externs, groups,
                 optimized, out, runVars>>

\* main = TheModule->getFunction("main"); if (!main) ...; TheFPM->run(*main)
MainOptimize ==
  /\ phase = "emitted"
  /\ IF blocks = <<>>
       THEN /\ phase' = "exitNoMain"
            /\ out' = Append(out, "main() was not defined")
            /\ optimized' = optimized
       ELSE /\ phase' = "optimized"
            /\ out' = out
            /\ optimized' = TRUE
  /\ UNCHANGED <<input, root, consumed, parseVars, genVars, broken, runVars>>

\* TheModule->print(outs(), nullptr); return 0
MainPrint ==
  /\ phase = "optimized"
  /\ out' = Append(out, "module")
  /\ phase' = "exit0"
  /\ UNCHANGED <<input, root, consumed, parseVars, genVars, broken, optimized, runVars>>

(***************************************************************************)
(* Execution of the emitted function.  The two allocas hold indeterminate  *)
(* values until the emitted stores run.  An access outside the tape is     *)
(* undefined: it may trap, or go on with a junk value and the store lost.  *)
(***************************************************************************)
\* The history variable whilePos follows the tree itself beside the emitted
\* program: a stack of the scopes entered, each with the children still to run.
\* It reads the cell the emitted program reads and has no part in its steps.
WhileStart == <<[rest |-> root.children, body |-> <<>>, loop |-> FALSE]>>

\* one step of the tree: a leaf is passed; a group is entered on a nonzero cell
\* and passed on zero; the end of a group's body starts the body again on a
\* nonzero cell and leaves the group on zero; the end of the program ends the run
WhileStep(k, nonzero) ==
  IF k = <<>> THEN k
  ELSE LET top == k[Len(k)]
           passed == [k EXCEPT ![Len(k)].rest = Tail(@)]
       IN IF top.rest # <<>>
            THEN IF Head(top.rest).kind = "ConditionalGroup" /\ nonzero
                   THEN Append(passed, [rest |-> Head(top.rest).children,
                                        body |-> Head(top.rest).children,
                                        loop |-> TRUE])
                   ELSE passed
          ELSE IF top.loop
            THEN IF nonzero THEN [k EXCEPT ![Len(k)].rest = top.body]
                            ELSE SubSeq(k, 1, Len(k) - 1)
          ELSE <<>>

Tracked == whilePos' = WhileStep(whilePos, InBounds(position) /\ tape[position] # 0)

RunStart ==
  /\ phase = "exit0"
  /\ pc' = [blk |-> 1, idx |-> 1]
  /\ position' \in JunkBytes
  /\ \E v \in JunkBytes : tape' = [i \in TapeCells |-> v]
  /\ phase' = "running"
  /\ whilePos' = WhileStart
  /\ UNCHANGED <<input, root, consumed, parseVars, genVars, mainVars, putlog, ub>>

\* control that runs off a block without a terminator finds no operation
CurOp ==
  IF pc.blk \in 1..Len(blocks) /\ pc.idx \in 1..Len(blocks[pc.blk])
    THEN blocks[pc.blk][pc.idx]
    ELSE Op("None")
At(name) == phase = "running" /\ CurOp.op = name
Fall == pc' = [pc EXCEPT !.idx = @ + 1]
Jump(b) == pc' = [blk |-> b, idx |-> 1]
Static == UNCHANGED <<input, phase, root, consumed, parseVars, genVars, mainVars>>
CellOps == {"IncCell", "DecCell", "PutChar", "GetChar", "CondBr"}

ExecStorePosition ==
  /\ At("StorePosition")
  /\ position' = 0
  /\ Fall
  /\ Static /\ UNCHANGED <<tape, putlog, ub, whilePos>>

ExecStoreTape ==
  /\ At("StoreTape")
  /\ tape' = ZeroTape
  /\ Fall
  /\ Static /\ UNCHANGED <<position, putlog, ub, whilePos>>

ExecIncrement ==
  /\ At("IncCell")
  /\ InBounds(position)
  /\ tape' = [tape EXCEPT ![position] = Add8(@)]
  /\ Fall
  /\ Tracked
  /\ Static /\ UNCHANGED <<position, putlog, ub>>

ExecDecrement ==
  /\ At("DecCell")
  /\ InBounds(position)
  /\ tape' = [tape EXCEPT ![position] = Sub8(@)]
  /\ Fall
  /\ Tracked
  /\ Static /\ UNCHANGED <<position, putlog, ub>>

ExecMoveLeft ==
  /\ At("DecPosition")
  /\ position > -MaxPos
  /\ position' = position - 1
  /\ Fall
  /\ Tracked
  /\ Static /\ UNCHANGED <<tape, putlog, ub>>

ExecMoveRight ==
  /\ At("IncPosition")
  /\ position < MaxPos
  /\ position' = position + 1
  /\ Fall
  /\ Tracked
  /\ Static /\ UNCHANGED <<tape, putlog, ub>>

ExecPutChar ==
  /\ At("PutChar")
  /\ InBounds(position)
  /\ Len(putlog) < MaxOut
  /\ putlog' = Append(putlog, tape[position])
  /\ Fall
  /\ Tracked
  /\ Static /\ UNCHANGED <<position, tape, ub>>

ExecGetChar ==
  /\ At("GetChar")
  /\ InBounds(position)
  /\ \E c \in GetcharResults : tape' = [tape EXCEPT ![position] = Trunc8(c)]
  /\ Fall
  /\ Tracked
  /\ Static /\ UNCHANGED <<position, putlog, ub>>

ExecCondBr ==
  /\ At("CondBr")
  /\ InBounds(position)
  /\ IF tape[position] # 0 THEN Jump(CurOp.t) ELSE Jump(CurOp.f)
  /\ Tracked
  /\ Static /\ UNCHANGED <<position, tape, putlog, ub>>

ExecRet ==
  /\ At("Ret")
  /\ phase' = "halted"
  /\ Tracked
  /\ UNCHANGED <<input, root, consumed, parseVars, genVars, mainVars, pc, position, tape,
                 putlog, ub>>

ExecOutOfBounds ==
  /\ phase = "running"
  /\ CurOp.op \in CellOps
  /\ ~InBounds(position)
  /\ ub' = TRUE
  /\ \/ /\ phase' = "crashed"
        /\ UNCHANGED <<pc, putlog>>
     \/ /\ phase' = phase
        /\ \E v \in JunkBytes :
             CASE CurOp.op = "CondBr" ->
                    /\ IF v # 0 THEN Jump(CurOp.t) ELSE Jump(CurOp.f)
                    /\ putlog' = putlog
               [] CurOp.op = "PutChar" ->
                    /\ Len(putlog) < MaxOut
                    /\ putlog' = Append(putlog, v)
                    /\ Fall
               [] OTHER -> Fall /\ putlog' = putlog
  /\ UNCHANGED <<input, root, consumed, parseVars, genVars, mainVars, position, tape,
                 whilePos>>

\* one operation of the emitted program
Exec ==
  \/ ExecStorePosition \/ ExecStoreTape
  \/ ExecIncrement \/ ExecDecrement \/ ExecMoveLeft \/ ExecMoveRight
  \/ ExecPutChar \/ ExecGetChar \/ ExecCondBr \/ ExecRet
  \/ ExecOutOfBounds

Next ==
  \/ MainOpen \/ MainParse \/ LlvmInit
  \/ ProgramCodegenBegin
  \/ IncrementCodegen \/ DecrementCodegen \/ MoveLeftCodegen \/ MoveRightCodegen
  \/ PutCharCodegen \/ GetCharCodegen
  \/ GroupCodegenBegin \/ GroupCodegenEnd
  \/ ProgramCodegenEnd
  \/ MainOptimize \/ MainPrint
  \/ RunStart
  \/ Exec

Spec == Init /\ [][Next]_vars

\* The driver on the scenario texts alone.  The emitted program runs on: an
\* operation that can be executed is executed.
InitScenario == input \in Scenarios /\ InitRest
ScenarioSpec == InitScenario /\ [][Next]_vars /\ WF_vars(Exec)

(***************************************************************************)
(* Claims about the parser.                                                *)
(***************************************************************************)
\* a direct scan of the text: where the top-level scope ends (the first ']'
\* met with no '[' open, else the end of the text) and how many '[' are open there
RECURSIVE Scan(_, _, _)
Scan(s, i, depth) ==
  IF i > Len(s) THEN [end |-> Len(s), open |-> depth]
  ELSE IF s[i] = "[" THEN Scan(s, i + 1, depth + 1)
  ELSE IF s[i] = "]"
    THEN IF depth = 0 THEN [end |-> i, open |-> 0] ELSE Scan(s, i + 1, depth - 1)
  ELSE Scan(s, i + 1, depth)

TopScopeEnd(s) == Scan(s, 1, 0).end
OpenAtEnd(s) == Scan(s, 1, 0).open
Closers(k) == [i \in 1..k |-> "]"]
NodeChars(s, n) == Cardinality({i \in 1..n : s[i] \in Commands \ {"]"}})

RECURSIVE NodeCount(_)
RECURSIVE NodeCountAll(_)
NodeCountAll(children) ==
  IF children = <<>> THEN 0 ELSE NodeCount(Head(children)) + NodeCountAll(Tail(children))
NodeCount(n) == (IF n.kind = "Program" THEN 0 ELSE 1) + NodeCountAll(n.children)

RECURSIVE HasGroup(_)
HasGroup(n) ==
  \/ n.kind = "ConditionalGroup"
  \/ \E i \in 1..Len(n.children) : HasGroup(n.children[i])

\* main() has the result of ProgramNode::try_parse in hand
Parsed == phase \notin {"start", "opened", "exitOpen"}

\* C4: a text with characters outside +-<>.,[] inserted anywhere parses to the
\* same tree (kinds, order, nesting) as the text without them.
C4_CommentTransparency == phase = "parsedCommented" => rootCommented = root

C4_Witness ==
  /\ phase = "parsedCommented"
  /\ commented # input
  /\ HasGroup(root)
  /\ \E i \in 1..Len(root.children) :
       root.children[i].kind = "ConditionalGroup" /\ root.children[i].children # <<>>

\* C5: parsing what debug_print wrote for the tree of any text (filler or not,
\* brackets balanced or not) gives the same tree again.
C5_RoundTrip == phase = "reparsed" => rootPrinted = root

C5_Witness ==
  /\ phase = "reparsed"
  /\ HasGroup(root)
  /\ OpenAtEnd(input) > 0
  /\ \E i \in 1..Len(input) : input[i] \in Filler
  /\ printed # input

\* C7 as stated: when the top-level try_parse returns, every character of the
\* text has been consumed.
C7_AllConsumed == Parsed => consumed = Len(input)

\* C7 as amended: when the top-level try_parse returns, the stream has been
\* consumed up to and including the first ']' met with no '[' open, or to its end
\* when there is none; each of +-<>.,[ consumed has produced exactly one node, and
\* nothing after that ']' is read.
C7_ConsumedToTopLevelClose ==
  Parsed =>
    /\ consumed = TopScopeEnd(input)
    /\ NodeCount(root) = NodeChars(input, consumed)

C7_Witness ==
  /\ Parsed
  /\ consumed < Len(input)
  /\ \E i \in (consumed + 1)..Len(input) : input[i] \in Commands \ {"]"}
  /\ NodeCount(root) > 0

\* C8: try_parse returns a Program for every text, main() never takes the
\* "Failed to parse AST" path, and scopes left open at the end of the text are
\* closed as if the missing ']' were there: the tree is that of the closed text.
C8_NeverRejects ==
  Parsed =>
    /\ root # NULL
    /\ root.kind = "Program"
    /\ phase # "exitParse"
    /\ root = ProgramTryParse(input \o Closers(OpenAtEnd(input))).node

C8_Witness ==
  /\ Parsed
  /\ OpenAtEnd(input) >= 2
  /\ root.children # <<>>
  /\ LET g == root.children[Len(root.children)] IN
       /\ g.kind = "ConditionalGroup"
       /\ g.children # <<>>
       /\ g.children[Len(g.children)].kind = "ConditionalGroup"
       /\ g.children[Len(g.children)].children # <<>>

(***************************************************************************)
(* Claims about the emitted code and its execution.                        *)
(***************************************************************************)
Emitted == phase \in {"emitted", "optimized", "exit0", "running", "halted", "crashed"}
Defined == phase = "running" /\ ~ub
DataUnchanged == tape' = tape /\ position' = position /\ putlog' = putlog
LastOp(b) == blocks[b][Len(blocks[b])]

\* C1: for ++>+++++[<+>-]<. the emitted code calls putchar exactly once, with 7,
\* and then reaches the return of the entry routine.
C1_Prints7 ==
  /\ [](input = Scenario7 =>
          /\ ~ub
          /\ phase # "crashed"
          /\ putlog \in {<<>>, <<7>>}
          /\ phase = "halted" => putlog = <<7>>)
  /\ (input = Scenario7 /\ phase = "running") ~> (phase = "halted" /\ putlog = <<7>>)

C1_Witness == input = Scenario7 /\ phase = "halted" /\ putlog = <<7>> /\ position = 0

\* C2: when the entry test of a loop runs on a cell that is 0, control goes to
\* that loop's merge block, not to its body, and tape, position and output stay
\* as they are.
C2_ZeroIteration ==
  [][\A g \in 1..Len(groups) :
       (/\ Defined
        /\ pc.blk = groups[g].base
        /\ CurOp.op = "CondBr"
        /\ InBounds(position)
        /\ tape[position] = 0)
       => /\ pc' = [blk |-> groups[g].merge, idx |-> 1]
          /\ pc'.blk # groups[g].content
          /\ phase' = "running"
          /\ DataUnchanged]_vars

C2_Witness ==
  /\ input = ScenarioSkip
  /\ phase = "halted"
  /\ ~ub
  /\ tape = ZeroTape
  /\ putlog = <<>>

\* the operation a run of the tree itself executes next
WhileOp(k) ==
  IF k = <<>> THEN "None"
  ELSE LET top == k[Len(k)] IN
       IF top.rest = <<>> THEN (IF top.loop THEN "CondBr" ELSE "Ret")
       ELSE CASE Head(top.rest).kind = "Increment" -> "IncCell"
              [] Head(top.rest).kind = "Decrement" -> "DecCell"
              [] Head(top.rest).kind = "MoveLeft" -> "DecPosition"
              [] Head(top.rest).kind = "MoveRight" -> "IncPosition"
              [] Head(top.rest).kind = "PutChar" -> "PutChar"
              [] Head(top.rest).kind = "GetChar" -> "GetChar"
              [] Head(top.rest).kind = "ConditionalGroup" -> "CondBr"

C6_ByteWraparound ==
  /\ [](\A i \in TapeCells : tape[i] \in 0..255)
  /\ [][/\ (Defined /\ CurOp.op = "IncCell" /\ InBounds(position)) =>
             /\ tape' = [tape EXCEPT ![position] = (tape[position] + 1) % 256]
             /\ position' = position
             /\ putlog' = putlog
        /\ (Defined /\ CurOp.op = "DecCell" /\ InBounds(position)) =>
             /\ tape' = [tape EXCEPT ![position] = (tape[position] + 255) % 256]
             /\ position' = position
             /\ putlog' = putlog]_vars
  /\ [](input = ScenarioWrap /\ phase = "halted" => tape = ZeroTape /\ position = 0)

C6_Witness == input = ScenarioWrap /\ phase = "halted" /\ tape[0] = 0 /\ ~ub

C10_WellFormed ==
  /\ [](phase = "codegen" =>
          /\ insertBlock \in 1..Len(blocks)
          /\ \A i \in 1..Len(blocks[insertBlock]) :
               blocks[insertBlock][i].op \notin Terminators)
  /\ [](Emitted =>
          \A b \in 1..Len(blocks) :
            /\ blocks[b] # <<>>
            /\ LastOp(b).op \in Terminators
            /\ \A i \in 1..(Len(blocks[b]) - 1) : blocks[b][i].op \notin Terminators
            /\ LastOp(b).op = "CondBr" =>
                 LastOp(b).t \in 1..Len(blocks) /\ LastOp(b).f \in 1..Len(blocks))
  /\ [][(/\ phase = "codegen"
         /\ frames # <<>>
         /\ Top.kind = "ConditionalGroup"
         /\ Len(frames') < Len(frames))
        => /\ insertBlock' = groups[Top.group].merge
           /\ blocks'[insertBlock'] = <<>>]_vars

C10_Witness ==
  /\ phase = "emitted"
  /\ Len(groups) >= 3
  /\ \E g \in 1..Len(groups) : groups[g].tail # groups[g].content
  /\ \E g \in 1..Len(groups) : Len(blocks[groups[g].content]) = 1

====
